---------------------------- MODULE Spec2Model ----------------------------
(***************************************************************************)
(* A model of src/train.py: the Trainer class, its batch gradient descent  *)
(* (gradient_descent) and its grid search (hyperparameter_tuning).         *)
(*                                                                         *)
(* Floating point numbers are modelled by a reduced binary format: a       *)
(* finite value is an integer k standing for k / Scale with |k| <= FMax,   *)
(* a result of larger magnitude overflows to an infinity, and an invalid   *)
(* operation (0/0, inf - inf, 0 * inf) yields NaN, which compares false.   *)
(*                                                                         *)
(* The callers of the class are not part of the source.  They are taken to *)
(* construct one Trainer, to call hyperparameter_tuning and                *)
(* gradient_descent on it in any order, and to pass the Trainer's own      *)
(* table as the mileages argument.  An exception ends the program.         *)
(***************************************************************************)
EXTENDS Integers, Sequences, FiniteSets

(***************************************************************************)
(* Bounds of the model.                                                    *)
(***************************************************************************)
\* Largest finite magnitude of the reduced float format (in units of 1/Scale).
FMax == 255
\* Number of representable steps per unit.
Scale == 4
\* Largest iteration cap explored; it also stands for the default cap.
MaxIterations == 4
\* Longest candidate list handed to hyperparameter_tuning.
MaxList == 2
\* Number of hyperparameter_tuning calls made on one Trainer.
MaxCalls == 2

(***************************************************************************)
(* Float values and arithmetic (numpy float64 / pandas Series semantics).  *)
(***************************************************************************)
PInf == FMax + 1
NInf == -(FMax + 1)
NaN == FMax + 2
\* Python's None in a scalar field.
None == FMax + 3
\* Python's None in the best_theta field.
NoTheta == << >>
\* model.json before anything was written to it.
NoFile == << >>

IsNaN(a) == a = NaN
IsInf(a) == a = PInf \/ a = NInf
IsFinite(a) == ~IsNaN(a) /\ ~IsInf(a)

Abs(k) == IF k < 0 THEN -k ELSE k
Sign(k) == IF k < 0 THEN -1 ELSE IF k > 0 THEN 1 ELSE 0

\* The float of the integer n.
F(n) == n * Scale

\* Integer quotient rounded to the nearest integer (b # 0).
RoundDiv(a, b) ==
    Sign(a) * Sign(b) * ((2 * Abs(a) + Abs(b)) \div (2 * Abs(b)))

\* Overflow of an exact result to an infinity.
Round(k) == IF k > FMax THEN PInf ELSE IF k < -FMax THEN NInf ELSE k

FNeg(a) == IF IsNaN(a) THEN NaN ELSE -a

FAdd(a, b) ==
    IF IsNaN(a) \/ IsNaN(b) THEN NaN
    ELSE IF IsInf(a) /\ IsInf(b) THEN (IF a = b THEN a ELSE NaN)
    ELSE IF IsInf(a) THEN a
    ELSE IF IsInf(b) THEN b
    ELSE Round(a + b)

FSub(a, b) == FAdd(a, FNeg(b))

FMul(a, b) ==
    IF IsNaN(a) \/ IsNaN(b) THEN NaN
    ELSE IF IsInf(a) \/ IsInf(b)
         THEN (IF a = 0 \/ b = 0 THEN NaN
               ELSE IF Sign(a) * Sign(b) > 0 THEN PInf ELSE NInf)
    ELSE Round(RoundDiv(a * b, Scale))

FDiv(a, b) ==
    IF IsNaN(a) \/ IsNaN(b) THEN NaN
    ELSE IF IsInf(a) /\ IsInf(b) THEN NaN
    ELSE IF IsInf(a) THEN (IF Sign(a) * Sign(b) >= 0 THEN PInf ELSE NInf)
    ELSE IF IsInf(b) THEN 0
    ELSE IF b = 0 THEN (IF a = 0 THEN NaN ELSE IF a > 0 THEN PInf ELSE NInf)
    ELSE Round(RoundDiv(a * Scale, b))

FSqrt(a) ==
    IF IsNaN(a) \/ a < 0 THEN NaN
    ELSE IF a = PInf THEN PInf
    ELSE CHOOSE r \in 0 .. a * Scale :
            r * r <= a * Scale /\ (r + 1) * (r + 1) > a * Scale

FAbs(a) == IF IsNaN(a) THEN NaN ELSE Abs(a)

\* a < b on floats: false as soon as one side is NaN.
FLt(a, b) == ~IsNaN(a) /\ ~IsNaN(b) /\ a < b

RECURSIVE SumFrom(_, _)
SumFrom(s, j) == IF j > Len(s) THEN 0 ELSE FAdd(s[j], SumFrom(s, j + 1))

\* Series.mean(): NaN entries are skipped (skipna), the mean of none is NaN.
SeriesMean(s) ==
    LET valid == SelectSeq(s, LAMBDA v : ~IsNaN(v))
    IN  IF Len(valid) = 0 THEN NaN ELSE FDiv(SumFrom(valid, 1), F(Len(valid)))

\* Series.std(): the sample standard deviation (ddof = 1), NaN below 2 samples.
SeriesStd(s) ==
    LET m == SeriesMean(s)
        sq == [j \in 1 .. Len(s) |-> FMul(FSub(s[j], m), FSub(s[j], m))]
    IN  IF Len(s) < 2 THEN NaN
        ELSE FSqrt(FDiv(SumFrom(sq, 1), F(Len(s) - 1)))

(***************************************************************************)
(* Inputs.                                                                 *)
(***************************************************************************)
\* The contents data.csv may have: rows of (km, price).
Datasets ==
    { << [km |-> F(1), price |-> F(3)], [km |-> F(2), price |-> F(2)],
         [km |-> F(3), price |-> F(1)] >>,
      << [km |-> F(0), price |-> F(4)], [km |-> F(2), price |-> F(2)] >>,
      << [km |-> F(2), price |-> F(3)], [km |-> F(2), price |-> F(1)] >>,
      << [km |-> F(2), price |-> F(3)] >> }

\* Candidate learning rates: 0.5, 1 and 8 (the last one diverges).
LearningRates == {Scale \div 2, Scale, 8 * Scale}
\* Candidate convergence thresholds: the smallest positive float, 1 and 4.
ConvergenceThresholds == {1, Scale, 4 * Scale}

\* The candidate lists: up to MaxList different values, in any order.
Lists(S) ==
    UNION {{l \in [1 .. n -> S] :
               \A p, q \in 1 .. n : p # q => l[p] # l[q]} : n \in 0 .. MaxList}

(***************************************************************************)
(* State.                                                                  *)
(***************************************************************************)
VARIABLES
    mileages,                    \* self.mileages (km and price columns)
    mean_km,                     \* self.mean_km
    std_km,                      \* self.std_km
    normalized_km,               \* self.mileages["normalized_km"]
    best_learning_rate,          \* self.best_learning_rate
    best_convergence_threshold,  \* self.best_convergence_threshold
    best_iterations,             \* self.best_iterations
    best_theta,                  \* self.best_theta
    pc,                          \* where control is
    caller,                      \* who is calling: "tuning", "direct", "none"
    learning_rates,              \* hyperparameter_tuning's argument
    convergence_thresholds,      \* hyperparameter_tuning's argument
    li,                          \* position of the outer loop (1-based)
    ci,                          \* position of the inner loop (1-based)
    learning_rate,               \* gradient_descent's argument
    convergence,                 \* gradient_descent's argument
    iterations,                  \* gradient_descent's argument
    i,                           \* gradient_descent's loop variable
    theta,                       \* gradient_descent's local theta
    ret,                         \* the value gradient_descent returned (iters, theta)
    result,                      \* hyperparameter_tuning's returned value
    model_json,                  \* the contents of model.json
    exports,                     \* history: writes of model.json in this call
    calls,                       \* number of hyperparameter_tuning calls so far
    evaluated                    \* history: the pairs evaluated by the call in progress

trainer == << mileages, mean_km, std_km, normalized_km >>
best == << best_iterations, best_learning_rate, best_convergence_threshold,
           best_theta >>
tuning == << learning_rates, convergence_thresholds, li, ci, result,
             model_json, exports, calls, evaluated >>
frame == << learning_rate, convergence, iterations, i, theta >>
vars == << trainer, best, tuning, frame, pc, caller, ret >>

(***************************************************************************)
(* Trainer's pure methods.                                                 *)
(***************************************************************************)
\* normalize_mileage, with the statistics passed explicitly.
normalize_mileage(mileage, mean, std) == FDiv(FSub(mileage, mean), std)

estimate_price(normalized_mileage, th) ==
    FAdd(th[1], FMul(th[2], normalized_mileage))

\* Variant: the comparisons turned around.
convergence_threshold_reached_Flipped(new_theta, th, convergence_threshold) ==
    /\ FLt(convergence_threshold, FAbs(FSub(new_theta[1], th[1])))
    /\ FLt(convergence_threshold, FAbs(FSub(new_theta[2], th[2])))

convergence_threshold_reached(new_theta, th, convergence_threshold) ==
    /\ FLt(FAbs(FSub(new_theta[1], th[1])), convergence_threshold)
    /\ FLt(FAbs(FSub(new_theta[2], th[2])), convergence_threshold)

calculate_gradient(errors) ==
    << SeriesMean(errors),
       SeriesMean([j \in 1 .. Len(errors) |->
                      FMul(errors[j], normalized_km[j])]) >>

calculate_new_theta(th, gradient_theta, lr) ==
    << FSub(th[1], FMul(lr, gradient_theta[1])),
       FSub(th[2], FMul(lr, gradient_theta[2])) >>

\* np.zeros(2)
Zeros == << 0, 0 >>

\* One pass of the loop body of gradient_descent up to new_t.
NewTheta(th, lr) ==
    LET predictions == [j \in 1 .. Len(normalized_km) |->
                           estimate_price(normalized_km[j], th)]
        errors == [j \in 1 .. Len(predictions) |->
                      FSub(predictions[j], mileages[j].price)]
        grad_t == calculate_gradient(errors)
    IN  calculate_new_theta(th, grad_t, lr)

\* gradient_descent as a function of its arguments: the run from (k, th).
RECURSIVE DescentFrom(_, _, _, _, _)
DescentFrom(k, th, lr, ct, n) ==
    IF k >= n THEN [iters |-> n, theta |-> th]
    ELSE LET new_t == NewTheta(th, lr)
         IN  IF convergence_threshold_reached(new_t, th, ct)
             THEN [iters |-> k + 1, theta |-> th]
             ELSE DescentFrom(k + 1, new_t, lr, ct, n)

gradient_descent(lr, ct, n) == DescentFrom(0, Zeros, lr, ct, n)

\* The default of gradient_descent's iterations parameter (500 in the
\* source, scaled down to the model's bound).
DefaultIterations == MaxIterations

(***************************************************************************)
(* Initial state: Trainer.__init__.                                        *)
(***************************************************************************)
Init ==
    /\ mileages \in Datasets
    /\ mean_km = SeriesMean([j \in 1 .. Len(mileages) |-> mileages[j].km])
    /\ std_km = SeriesStd([j \in 1 .. Len(mileages) |-> mileages[j].km])
    /\ normalized_km = [j \in 1 .. Len(mileages) |->
                           normalize_mileage(mileages[j].km, mean_km, std_km)]
    /\ best_learning_rate = None
    /\ best_convergence_threshold = None
    /\ best_iterations = PInf
    /\ best_theta = NoTheta
    /\ pc = "idle"
    /\ caller = "none"
    /\ learning_rates = << >>
    /\ convergence_thresholds = << >>
    /\ li = 1
    /\ ci = 1
    /\ learning_rate = None
    /\ convergence = None
    /\ iterations = 0
    /\ i = 0
    /\ theta = Zeros
    /\ ret = << >>
    /\ result = NoTheta
    /\ model_json = NoFile
    /\ exports = 0
    /\ calls = 0
    /\ evaluated = << >>

(***************************************************************************)
(* hyperparameter_tuning.                                                  *)
(***************************************************************************)
\* Variant: every call starts from an empty best-result state.
HyperparameterTuning_Resets ==
    /\ pc \in {"idle", "returned"}
    /\ calls < MaxCalls
    /\ calls' = calls + 1
    /\ \E lrs \in Lists(LearningRates), cts \in Lists(ConvergenceThresholds) :
          /\ learning_rates' = lrs
          /\ convergence_thresholds' = cts
    /\ li' = 1
    /\ ci' = 1
    /\ evaluated' = << >>
    /\ exports' = 0
    /\ result' = NoTheta
    /\ pc' = "loop"
    /\ caller' = "tuning"
    /\ best_iterations' = PInf
    /\ best_learning_rate' = None
    /\ best_convergence_threshold' = None
    /\ best_theta' = NoTheta
    /\ UNCHANGED << trainer, frame, ret, model_json >>

\* The caller enters hyperparameter_tuning(mileages, lrs, cts).
HyperparameterTuning ==
    /\ pc \in {"idle", "returned"}
    /\ calls < MaxCalls
    /\ calls' = calls + 1
    /\ \E lrs \in Lists(LearningRates), cts \in Lists(ConvergenceThresholds) :
          /\ learning_rates' = lrs
          /\ convergence_thresholds' = cts
    /\ li' = 1
    /\ ci' = 1
    /\ evaluated' = << >>
    /\ exports' = 0
    /\ result' = NoTheta
    /\ pc' = "loop"
    /\ caller' = "tuning"
    /\ UNCHANGED << trainer, best, frame, ret, model_json >>

\* Variant: the inner loop stops one threshold short.
HasNext_SkipsLast ==
    li <= Len(learning_rates) /\ ci < Len(convergence_thresholds)

\* The two for loops have a next pair.
HasNext == li <= Len(learning_rates) /\ ci <= Len(convergence_thresholds)

\* Variant: theta is not initialised anew.
Enter_KeepsTheta(lr, ct, n) ==
    /\ learning_rate' = lr
    /\ convergence' = ct
    /\ iterations' = n
    /\ i' = 0
    /\ theta' = theta
    /\ pc' = "gd"

\* Entry of gradient_descent: theta = np.zeros(2).
Enter(lr, ct, n) ==
    /\ learning_rate' = lr
    /\ convergence' = ct
    /\ iterations' = n
    /\ i' = 0
    /\ theta' = Zeros
    /\ pc' = "gd"

\* The loop body calls gradient_descent(mileages, lr, ct).
TuningCallsDescent ==
    /\ pc = "loop"
    /\ HasNext
    /\ Enter(learning_rates[li], convergence_thresholds[ci], DefaultIterations)
    /\ evaluated' = Append(evaluated,
                           << learning_rates[li], convergence_thresholds[ci] >>)
    /\ UNCHANGED << trainer, best, learning_rates, convergence_thresholds, li,
                    ci, result, model_json, exports, calls, caller, ret >>

\* Variant: on convergence the updated theta is returned.
DescentStep_ReturnsNew ==
    /\ pc = "gd"
    /\ i < iterations
    /\ LET new_t == NewTheta(theta, learning_rate)
       IN  IF convergence_threshold_reached(new_t, theta, convergence)
           THEN /\ ret' = [iters |-> i + 1, theta |-> new_t, converged |-> TRUE]
                /\ pc' = "gd_return"
                /\ UNCHANGED << i, theta >>
           ELSE /\ theta' = new_t
                /\ i' = i + 1
                /\ UNCHANGED << ret, pc >>
    /\ UNCHANGED << trainer, best, tuning, caller, learning_rate, convergence,
                    iterations >>

\* One iteration of gradient_descent's for loop.
DescentStep ==
    /\ pc = "gd"
    /\ i < iterations
    /\ LET new_t == NewTheta(theta, learning_rate)
       IN  IF convergence_threshold_reached(new_t, theta, convergence)
           THEN /\ ret' = [iters |-> i + 1, theta |-> theta, converged |-> TRUE]
                /\ pc' = "gd_return"
                /\ UNCHANGED << i, theta >>
           ELSE /\ theta' = new_t
                /\ i' = i + 1
                /\ UNCHANGED << ret, pc >>
    /\ UNCHANGED << trainer, best, tuning, caller, learning_rate, convergence,
                    iterations >>

\* Variant: the final return counts like the return on convergence.
DescentExhausted_CountsOneMore ==
    /\ pc = "gd"
    /\ i >= iterations
    /\ ret' = [iters |-> i + 1, theta |-> theta, converged |-> FALSE]
    /\ pc' = "gd_return"
    /\ UNCHANGED << trainer, best, tuning, caller, frame >>

\* The for loop is exhausted: return iterations, theta.
DescentExhausted ==
    /\ pc = "gd"
    /\ i >= iterations
    /\ ret' = [iters |-> iterations, theta |-> theta, converged |-> FALSE]
    /\ pc' = "gd_return"
    /\ UNCHANGED << trainer, best, tuning, caller, frame >>

\* Variant: best_theta is left as it was.
update_hyperparameters_KeepsTheta(iters, lr, ct, th) ==
    /\ best_iterations' = iters
    /\ best_learning_rate' = lr
    /\ best_convergence_threshold' = ct
    /\ best_theta' = best_theta

update_hyperparameters(iters, lr, ct, th) ==
    /\ best_iterations' = iters
    /\ best_learning_rate' = lr
    /\ best_convergence_threshold' = ct
    /\ best_theta' = th

\* Variant: an equal count replaces the best result too.
Improves_OrEqual(iters) == iters <= best_iterations

\* iters < self.best_iterations
Improves(iters) == iters < best_iterations

\* Back in the loop body: compare, update, and move to the next pair.
TuningCompares ==
    /\ pc = "gd_return"
    /\ caller = "tuning"
    /\ IF Improves(ret.iters)
       THEN update_hyperparameters(ret.iters, learning_rate, convergence,
                                   ret.theta)
       ELSE UNCHANGED best
    /\ IF ci < Len(convergence_thresholds)
       THEN ci' = ci + 1 /\ li' = li
       ELSE ci' = 1 /\ li' = li + 1
    /\ pc' = "loop"
    /\ UNCHANGED << trainer, learning_rates, convergence_thresholds, result,
                    model_json, exports, calls, evaluated, caller, frame,
                    ret >>

\* model_to_json: subscripting best_theta raises TypeError while it is None.
ModelToJson ==
    /\ pc = "loop"
    /\ ~HasNext
    /\ IF best_theta = NoTheta
       THEN /\ pc' = "raised"
            /\ UNCHANGED << model_json, exports >>
       ELSE /\ model_json' = [theta_0 |-> best_theta[1],
                              theta_1 |-> best_theta[2],
                              mean_km |-> mean_km,
                              std_km |-> std_km]
            /\ exports' = exports + 1
            /\ pc' = "exported"
    /\ UNCHANGED << trainer, best, learning_rates, convergence_thresholds, li,
                    ci, result, calls, evaluated, frame, caller, ret >>

\* return self.best_theta: the call's frame (its arguments and loop
\* variables) is gone, its value is with the caller.
TuningReturns ==
    /\ pc = "exported"
    /\ result' = best_theta
    /\ pc' = "returned"
    /\ learning_rates' = << >>
    /\ convergence_thresholds' = << >>
    /\ li' = 1
    /\ ci' = 1
    /\ evaluated' = << >>
    /\ ret' = << >>
    /\ learning_rate' = None
    /\ convergence' = None
    /\ iterations' = 0
    /\ i' = 0
    /\ theta' = Zeros
    /\ caller' = "none"
    /\ UNCHANGED << trainer, best, model_json, exports, calls >>

(***************************************************************************)
(* gradient_descent called on its own, with any iteration cap.             *)
(***************************************************************************)
GradientDescent ==
    /\ pc \in {"idle", "returned"}
    /\ \E lr \in LearningRates, ct \in ConvergenceThresholds,
          n \in 0 .. MaxIterations : Enter(lr, ct, n)
    /\ caller' = "direct"
    /\ UNCHANGED << trainer, best, tuning, ret >>

DescentReturns ==
    /\ pc = "gd_return"
    /\ caller = "direct"
    /\ pc' = IF calls = 0 THEN "idle" ELSE "returned"
    /\ caller' = "none"
    /\ ret' = << >>
    /\ learning_rate' = None
    /\ convergence' = None
    /\ iterations' = 0
    /\ i' = 0
    /\ theta' = Zeros
    /\ UNCHANGED << trainer, best, tuning >>

Next ==
    \/ HyperparameterTuning
    \/ TuningCallsDescent
    \/ DescentStep
    \/ DescentExhausted
    \/ TuningCompares
    \/ ModelToJson
    \/ TuningReturns
    \/ GradientDescent
    \/ DescentReturns

Spec == Init /\ [][Next]_vars


(***************************************************************************)
(* Vocabulary of the properties.                                           *)
(***************************************************************************)
\* The data has at least two distinct mileages: std_km is a nonzero number.
ValidData == IsFinite(std_km) /\ std_km # 0

FiniteTheta(th) == IsFinite(th[1]) /\ IsFinite(th[2])

\* The thetas of n updates theta := theta - lr * gradient from [0, 0]:
\* element k + 1 is theta after k updates.
RECURSIVE Extend(_, _, _)
Extend(path, lr, n) ==
    IF n = 0 THEN path
    ELSE Extend(Append(path, NewTheta(path[Len(path)], lr)), lr, n - 1)

Thetas(lr, n) == Extend(<< << 0, 0 >> >>, lr, n)

\* |after - before| < ct for one component.
Below(after, before, ct) == FLt(FAbs(FSub(after, before)), ct)

\* The convergence test passes at step j (0-based) of the path of thetas.
PassesAt(path, j, ct) ==
    /\ Below(path[j + 2][1], path[j + 1][1], ct)
    /\ Below(path[j + 2][2], path[j + 1][2], ct)

\* The cartesian product, learning rates outer and thresholds inner.
Grid(lrs, cts) ==
    [k \in 1 .. Len(lrs) * Len(cts) |->
        << lrs[((k - 1) \div Len(cts)) + 1], cts[((k - 1) % Len(cts)) + 1] >>]

\* The iteration count of each candidate of the grid.
Counts(g) ==
    [k \in 1 .. Len(g) |-> gradient_descent(g[k][1], g[k][2],
                                            DefaultIterations).iters]

\* The first position of the grid that achieves the minimum count.
FirstMinimum(g) ==
    CHOOSE k \in 1 .. Len(g) :
        /\ \A j \in 1 .. Len(g) : Counts(g)[k] <= Counts(g)[j]
        /\ \A j \in 1 .. k - 1 : Counts(g)[j] > Counts(g)[k]

\* Thresholds a run is compared against: the candidates, 0, 1/2, 2 and
\* +infinity.
ProbeThresholds ==
    ConvergenceThresholds \cup {0, Scale \div 2, F(2), PInf}

InTuning == caller = "tuning" /\ pc \in {"loop", "gd", "gd_return"}

(***************************************************************************)
(* C1                                                                      *)
(***************************************************************************)
C1_Bounded ==
    /\ pc \in {"gd", "gd_return"} => i <= iterations
    /\ pc = "gd_return" =>
          /\ ret.iters <= iterations
          /\ ret.converged => ret.iters \in 1 .. iterations
          /\ ~ret.converged => ret.iters = iterations

\* A step of a run either returns or uses up one unit of the budget.
C1_Step ==
    pc = "gd" =>
        \/ pc' = "gd_return"
        \/ pc' = "gd" /\ i' = i + 1 /\ iterations' = iterations

\* C1: for every learning rate, threshold and cap N >= 0 a run of
\* gradient_descent executes at most N steps and returns a count c <= N
\* (1 <= c <= N when it converged, c = N otherwise): the number i of steps
\* taken never exceeds N and every step of the run returns or increases i,
\* so no run goes on for ever, also when theta diverges or becomes NaN.
C1_Terminates == []C1_Bounded /\ [][C1_Step]_vars

\* A run on valid data whose theta became NaN and that returned at the cap.
C1_Witness ==
    /\ pc = "gd_return"
    /\ ValidData
    /\ iterations = MaxIterations
    /\ ~ret.converged
    /\ IsNaN(ret.theta[1])

(***************************************************************************)
(* C2                                                                      *)
(***************************************************************************)
\* C2: when the first hyperparameter_tuning call on a Trainer has gone
\* through a non-empty grid, the best-result state holds the candidate that
\* is first in grid order among those with the minimum iteration count.
C2_FirstMinimumWins ==
    (pc = "exported" /\ calls = 1) =>
        LET g == Grid(learning_rates, convergence_thresholds)
            k == FirstMinimum(g)
            r == gradient_descent(g[k][1], g[k][2], DefaultIterations)
        IN  /\ Len(g) > 0
            /\ best_learning_rate = g[k][1]
            /\ best_convergence_threshold = g[k][2]
            /\ best_iterations = r.iters
            /\ best_theta = r.theta

\* Two different candidates tie for the minimum count.
C2_Witness ==
    /\ pc = "exported"
    /\ calls = 1
    /\ LET g == Grid(learning_rates, convergence_thresholds)
       IN  \E j \in 1 .. Len(g) :
              /\ j > FirstMinimum(g)
              /\ Counts(g)[j] = Counts(g)[FirstMinimum(g)]
              /\ g[j] # g[FirstMinimum(g)]

(***************************************************************************)
(* C3                                                                      *)
(***************************************************************************)
C3_Step ==
    /\ best_iterations' <= best_iterations
    /\ best' # best =>
          /\ pc = "gd_return"
          /\ caller = "tuning"
          /\ ret.iters < best_iterations
          /\ best_iterations' = ret.iters
    /\ (pc = "gd_return" /\ caller = "tuning"
           /\ ret.iters >= best_iterations) => best' = best

\* C3: best_iterations starts at +infinity and never increases, over any
\* number of hyperparameter_tuning calls; the best-result state changes only
\* when the count just returned is strictly less than best_iterations, and a
\* candidate with an equal or greater count leaves it unchanged.
C3_NeverWorse == (best_iterations = PInf) /\ [][C3_Step]_vars

\* In a second call, a different candidate returns the count of the best.
C3_Witness ==
    /\ pc = "gd_return"
    /\ caller = "tuning"
    /\ calls = 2
    /\ ret.iters = best_iterations
    /\ learning_rate # best_learning_rate

(***************************************************************************)
(* C4                                                                      *)
(***************************************************************************)
\* C4: between any two candidate evaluations, when the model is exported and
\* when the call has returned, the four best-result fields are either all
\* initial (+infinity, None, None, None) or all from one gradient_descent run:
\* best_iterations and best_theta are what gradient_descent returns for
\* (best_learning_rate, best_convergence_threshold).
C4_BestIsOneRun ==
    \/ pc \notin {"loop", "exported", "returned"}
    \/ /\ best_iterations = PInf
       /\ best_learning_rate = None
       /\ best_convergence_threshold = None
       /\ best_theta = NoTheta
    \/ /\ best_learning_rate \in LearningRates
       /\ best_convergence_threshold \in ConvergenceThresholds
       /\ LET r == gradient_descent(best_learning_rate,
                                    best_convergence_threshold,
                                    DefaultIterations)
          IN  best_iterations = r.iters /\ best_theta = r.theta

\* A later run with another theta has been compared and did not win.
C4_Witness ==
    /\ pc = "loop"
    /\ Len(evaluated) >= 2
    /\ best_theta # NoTheta
    /\ << learning_rate, convergence >> # << best_learning_rate,
                                             best_convergence_threshold >>
    /\ ret.theta # best_theta

(***************************************************************************)
(* C5                                                                      *)
(***************************************************************************)
\* C5: a run that returns on convergence returns (j + 1, theta) where j is
\* the first step at which both components moved by less than the threshold
\* and theta is the value before that step: j updates from [0, 0].
C5_ConvergedReturn ==
    (pc = "gd_return" /\ ret.converged) =>
        LET j == ret.iters - 1
            path == Thetas(learning_rate, iterations)
        IN  /\ j \in 0 .. iterations - 1
            /\ PassesAt(path, j, convergence)
            /\ \A k \in 0 .. j - 1 : ~PassesAt(path, k, convergence)
            /\ ret.theta = path[j + 1]
            /\ j = 0 => (ret.iters = 1 /\ ret.theta = << 0, 0 >>)

\* A run converged after its first step, where the update still moves theta.
C5_Witness ==
    /\ pc = "gd_return"
    /\ ret.converged
    /\ ret.iters >= 2
    /\ NewTheta(ret.theta, learning_rate) # ret.theta

(***************************************************************************)
(* C6                                                                      *)
(***************************************************************************)
\* C6: when the convergence test fails at each of the N steps, the run
\* returns (N, theta) with theta the result of N updates from [0, 0],
\* whatever ran before it.
C6_ExhaustedReturn ==
    pc = "gd_return" =>
        LET path == Thetas(learning_rate, iterations)
        IN  (\A k \in 0 .. iterations - 1 : ~PassesAt(path, k, convergence))
                => /\ ~ret.converged
                   /\ ret.iters = iterations
                   /\ ret.theta = path[iterations + 1]

\* A run that is not the first of its call used up the cap at a finite theta.
C6_Witness ==
    /\ pc = "gd_return"
    /\ caller = "tuning"
    /\ Len(evaluated) >= 2
    /\ iterations = MaxIterations
    /\ ~ret.converged
    /\ FiniteTheta(ret.theta)
    /\ ret.theta # << 0, 0 >>

(***************************************************************************)
(* C7                                                                      *)
(***************************************************************************)
\* C7: on valid data the best-result state never holds the theta of a
\* diverged run (a theta that is not finite).
C7_DivergedNeverBest ==
    (ValidData /\ best_theta # NoTheta) => FiniteTheta(best_theta)

(***************************************************************************)
(* C8                                                                      *)
(***************************************************************************)
\* C8: with data of zero variance or fewer than 2 samples no gradient_descent
\* run is started and nothing is exported, and with an empty candidate list
\* model_to_json is not reached.
C8_InvalidInputRejected ==
    /\ ~ValidData => pc \notin {"gd", "gd_return", "exported", "returned"}
    /\ (caller = "tuning"
           /\ (learning_rates = << >> \/ convergence_thresholds = << >>))
          => pc \notin {"exported", "raised"}

(***************************************************************************)
(* C9                                                                      *)
(***************************************************************************)
\* C9: for the samples, learning rate and cap of a run of gradient_descent
\* called on its own (with every learning rate, threshold and cap), a
\* threshold at most as large as the run's gives a count at least as large,
\* and a threshold at least as large gives a count at most as large.
C9_MonotoneInThreshold ==
    (pc = "gd_return" /\ caller = "direct") =>
        \A t \in ProbeThresholds :
            LET c == gradient_descent(learning_rate, t, iterations).iters
            IN  /\ t <= convergence => c >= ret.iters
                /\ t >= convergence => c <= ret.iters

\* A tighter threshold needs strictly more iterations than the run took.
C9_Witness ==
    /\ pc = "gd_return"
    /\ caller = "direct"
    /\ ret.converged
    /\ \E t \in ProbeThresholds :
          /\ t < convergence
          /\ gradient_descent(learning_rate, t, iterations).iters > ret.iters

(***************************************************************************)
(* C10                                                                     *)
(***************************************************************************)
\* C10: the pairs evaluated by a call are the grid in order (learning rates
\* outer, thresholds inner), each once; nothing is exported while the call is
\* in its loops; the model is exported once, after the whole grid; the call
\* then returns best_theta, whose components are the exported theta_0 and
\* theta_1. The one call that ends without an export is the call with an
\* empty grid on a Trainer that has no best result, where model_to_json
\* raises.
C10_GridThenExport ==
    LET g == Grid(learning_rates, convergence_thresholds)
    IN  /\ InTuning =>
              /\ exports = 0
              /\ Len(evaluated) <= Len(g)
              /\ evaluated = SubSeq(g, 1, Len(evaluated))
        /\ pc = "exported" =>
              /\ evaluated = g
              /\ exports = 1
              /\ model_json.theta_0 = best_theta[1]
              /\ model_json.theta_1 = best_theta[2]
        /\ pc = "returned" =>
              /\ exports = 1
              /\ result = best_theta
              /\ model_json.theta_0 = result[1]
              /\ model_json.theta_1 = result[2]
        /\ pc = "raised" =>
              /\ exports = 0
              /\ evaluated = g
              /\ g = << >>

\* A grid of two learning rates and two thresholds has been exported.
C10_Witness ==
    /\ pc = "exported"
    /\ Len(evaluated) = 4
    /\ learning_rates[1] # learning_rates[2]
    /\ convergence_thresholds[1] # convergence_thresholds[2]

=============================================================================
